---- MODULE Spec2Model ----
(***************************************************************************)
(* ParallelObject (sdcm/utils/common.py): a batch of inputs is submitted   *)
(* to a ThreadPoolExecutor, the futures are harvested in submission order  *)
(* under a wait budget that collapses after the first timeout, the pool is *)
(* cleaned up and the outcomes are returned or promoted to a raised error. *)
(*                                                                         *)
(* Python values are records tagged with their class (cls), so that a      *)
(* wrapper object, a plain value, None and an exception are all distinct.  *)
(* Time is counted in ticks of one millisecond, the size of the collapsed  *)
(* budget (time_out = 0.001).                                              *)
(***************************************************************************)
EXTENDS Naturals, Sequences, FiniteSets

VARIABLES
    objects,            \* self.objects
    num_workers,        \* self.num_workers
    pool,               \* self._thread_pool: [max_workers, shutdown]
    atexit_hooks,       \* the interpreter's atexit registry
    pc,                 \* position of the caller inside run
    calls,              \* how many times run has been called on this object
    ignore_exceptions,  \* run's argument
    unpack_objects,     \* run's argument
    work_items,         \* the calls handed to the pool, in submission order
    invoked,            \* how many times a worker has called func for each work item
    futures,            \* run's local list of futures
    results,            \* run's local list of ParallelObjectResult
    time_out,           \* run's local wait budget
    elapsed,            \* ticks spent so far in the current future.result(time_out)
    waited,             \* ticks spent so far in all waits of this run
    cleaned,            \* how many futures clean_up's loop has passed
    outcome,            \* what run returned or raised
    other               \* a second ParallelObject of the process and its run, or None

vars == <<objects, num_workers, pool, atexit_hooks, pc, calls, ignore_exceptions,
          unpack_objects, work_items, invoked, futures, results, time_out, elapsed,
          waited, cleaned, outcome, other>>

-----------------------------------------------------------------------------
(* Bounds of the model *)

MaxObjects == 2
MaxWorkers == 2
Timeout == 2
\* What ThreadPoolExecutor(max_workers=None) provides: min(32, cpu_count + 4),
\* a number of the platform that does not depend on the batch; scaled down.
DefaultMaxWorkers == 1
\* How many times run is called on one ParallelObject.
MaxCalls == 2

\* time_out = 0.001, in ticks
CollapsedTimeout == 1

-----------------------------------------------------------------------------
(* Python values *)

None == [cls |-> "NoneType"]

\* The items the batch is built from; what func does with each is below.
Items == {"one", "none", "boom", "tmo", "exit"}

\* The caller's callable, a fixed test operation: it returns a value computed
\* from its argument, returns None (a procedure run for its effect), or
\* raises.  How long it takes is not fixed, and it may never return.
func(obj) ==
    CASE obj = "none" -> [raises |-> FALSE, value |-> None]
      [] obj = "boom" -> [raises |-> TRUE, exc |-> [cls |-> "ValueError", arg |-> obj]]
      [] obj = "tmo"  -> [raises |-> TRUE, exc |-> [cls |-> "TimeoutError", arg |-> obj]]
      [] obj = "exit" -> [raises |-> TRUE, exc |-> [cls |-> "SystemExit", arg |-> obj]]
      [] OTHER        -> [raises |-> FALSE, value |-> [cls |-> "str", of |-> obj]]

\* Inputs of the three shapes run tells apart: a scalar, a list and a dict,
\* written as Python writes them.
ShapedItems == {"s", "[a, b]", "{x: 1}"}

\* isinstance(obj, (list, tuple))
IsListOrTuple(obj) == obj \in {"[a, b]"}

\* isinstance(obj, dict)
IsDict(obj) == obj \in {"{x: 1}"}

\* The elements of a list, in order.
Elements(obj) == CASE obj = "[a, b]" -> <<"a", "b">> [] OTHER -> <<>>

\* The entries of a dict, as <<key, value>> pairs.
Entries(obj) == CASE obj = "{x: 1}" -> {<<"x", "1">>} [] OTHER -> {}

\* What the pool keeps of submit(fn, *args, **kwargs).
WorkItem(args, kwargs) == [args |-> args, kwargs |-> kwargs]

\* func(*args, **kwargs): called with one positional argument it is func(obj)
\* above; called any other way it returns what it was called with.
Invoke(item) ==
    IF Len(item.args) = 1 /\ item.kwargs = {}
    THEN func(item.args[1])
    ELSE [raises |-> FALSE,
          value |-> [cls |-> "call", args |-> item.args, kwargs |-> item.kwargs]]

\* concurrent.futures.TimeoutError, raised by future.result when the wait
\* expires: an instance with no arguments.
WaitTimeoutError == [cls |-> "TimeoutError", arg |-> "wait"]

\* RuntimeError('cannot schedule new futures after shutdown'), raised by
\* ThreadPoolExecutor.submit.
SubmitAfterShutdownError == [cls |-> "RuntimeError", arg |-> "shutdown"]

\* isinstance(exc, FuturesTimeoutError)
IsFuturesTimeoutError(exc) == exc.cls = "TimeoutError"

\* isinstance(exc, Exception): SystemExit, KeyboardInterrupt and GeneratorExit
\* derive from BaseException only.
IsException(exc) ==
    exc.cls \in {"ValueError", "TimeoutError", "CancelledError", "RuntimeError"}

ParallelObjectResult(obj, result, exc) ==
    [cls |-> "ParallelObjectResult", obj |-> obj, result |-> result, exc |-> exc]

Int(n) == [cls |-> "int", n |-> n]

\* How a call of run ends: with a returned value or a raised exception.
Returned(value) == [kind |-> "returned", value |-> value]

Raised(exc) == [kind |-> "raised", exc |-> exc]

\* bool(exc), as in "if res.exc": an exception instance is true, None is not.
Truthy(exc) == exc # None

\* A concurrent.futures.Future: PENDING (queued), RUNNING, FINISHED with a
\* result or an exception, or CANCELLED.
NewFuture == [state |-> "PENDING", result |-> None, exception |-> None]

Resolved(future) == future.state \in {"FINISHED", "CANCELLED"}

NumRunning == Cardinality({i \in 1..Len(futures) : futures[i].state = "RUNNING"})

BoundedSeq(S, n) == UNION {[1..k -> S] : k \in 0..n}

-----------------------------------------------------------------------------
(* ParallelObject.__init__ *)

\* The atexit registry when ParallelObject is built: importing
\* concurrent.futures.thread has registered its _python_exit, which joins the
\* worker threads when the interpreter exits (Python 3.8 and before).
InterpreterHooks == {"_python_exit"}

\* Faulty variant: a worker per input when no number is given.
ExecutorWithWorkerPerInput(max_workers) ==
    [max_workers |-> IF max_workers = None THEN Len(objects) ELSE max_workers.n,
     shutdown |-> FALSE]

\* ThreadPoolExecutor(max_workers=self.num_workers)
ThreadPoolExecutor(max_workers) ==
    [max_workers |-> IF max_workers = None THEN DefaultMaxWorkers ELSE max_workers.n,
     shutdown |-> FALSE]

Init ==
    /\ objects \in BoundedSeq(Items, MaxObjects)
    /\ num_workers \in {None} \cup {Int(n) : n \in 1..MaxWorkers}
    /\ pool = ThreadPoolExecutor(num_workers)
    /\ atexit_hooks = InterpreterHooks
    /\ pc = "idle"
    /\ calls = 0
    /\ ignore_exceptions = FALSE
    /\ unpack_objects = FALSE
    /\ work_items = <<>>
    /\ invoked = <<>>
    /\ futures = <<>>
    /\ results = <<>>
    /\ time_out = Timeout
    /\ elapsed = 0
    /\ waited = 0
    /\ cleaned = 0
    /\ outcome = [kind |-> "none"]
    /\ other = None

-----------------------------------------------------------------------------
(* The worker threads of the pool *)

\* Faulty variant: a queued work item starts whether or not a worker is free.
CanStartUncapped(i) ==
    /\ futures[i].state = "PENDING"
    /\ \A j \in 1..(i - 1) : futures[j].state # "PENDING"

\* Faulty variant: the ParallelObjects of the process draw on one set of
\* workers, so the running tasks of the second object count against the cap.
CanStartOnSharedWorkers(i) ==
    /\ futures[i].state = "PENDING"
    /\ \A j \in 1..(i - 1) : futures[j].state # "PENDING"
    /\ NumRunning
         + Cardinality({j \in 1..Len(other.futures) : other.futures[j].state = "RUNNING"})
         < pool.max_workers

\* Faulty variant: a worker also takes a work item whose call has ended.
CanStartEndedToo(i) ==
    /\ futures[i].state \in {"PENDING", "FINISHED"}
    /\ \A j \in 1..(i - 1) : futures[j].state # "PENDING"
    /\ NumRunning < pool.max_workers

\* A queued work item is taken by a worker when one is free; the queue is
\* first in, first out.
CanStart(i) ==
    /\ futures[i].state = "PENDING"
    /\ \A j \in 1..(i - 1) : futures[j].state # "PENDING"
    /\ NumRunning < pool.max_workers

\* A worker takes the work item: its future is set running and func is called.
Start(i) ==
    /\ CanStart(i)
    /\ futures' = [futures EXCEPT ![i].state = "RUNNING"]
    /\ invoked' = [invoked EXCEPT ![i] = @ + 1]
    /\ UNCHANGED <<objects, num_workers, pool, atexit_hooks, pc, ignore_exceptions,
                   results, time_out, elapsed, waited, outcome, cleaned,
                   unpack_objects, work_items, calls, other>>

\* The future of a call that ended: its value, or the exception it raised.
Finished(call) ==
    IF call.raises
    THEN [state |-> "FINISHED", result |-> None, exception |-> call.exc]
    ELSE [state |-> "FINISHED", result |-> call.value, exception |-> None]

\* The call of a work item ends, after any time; nothing makes it end.
Finish(i) ==
    /\ futures[i].state = "RUNNING"
    /\ futures' = [futures EXCEPT ![i] = Finished(Invoke(work_items[i]))]
    /\ UNCHANGED <<objects, num_workers, pool, atexit_hooks, pc, ignore_exceptions,
                   results, time_out, elapsed, waited, outcome, cleaned,
                   unpack_objects, work_items, invoked, calls, other>>

-----------------------------------------------------------------------------
(* ParallelObject.run *)

Run(ignore, unpack) ==
    /\ pc = "idle"
    /\ pc' = "submit"
    /\ ignore_exceptions' = ignore
    /\ unpack_objects' = unpack
    /\ results' = <<>>
    /\ futures' = <<>>
    /\ work_items' = <<>>
    /\ invoked' = <<>>
    /\ calls' = calls + 1
    /\ UNCHANGED <<objects, num_workers, pool, atexit_hooks, time_out, elapsed,
                   waited, outcome, cleaned, other>>

\* run is called again on the same object, after an earlier call has returned
\* or raised: the locals are new, self and its pool are what the earlier call
\* left.  Nothing refers any more to the futures of the earlier call.
RunAgain(ignore, unpack) ==
    /\ pc = "done"
    /\ calls < MaxCalls
    /\ pc' = "submit"
    /\ ignore_exceptions' = ignore
    /\ unpack_objects' = unpack
    /\ results' = <<>>
    /\ futures' = <<>>
    /\ work_items' = <<>>
    /\ invoked' = <<>>
    /\ calls' = calls + 1
    /\ elapsed' = 0
    /\ waited' = 0
    /\ cleaned' = 0
    /\ outcome' = [kind |-> "none"]
    /\ UNCHANGED <<objects, num_workers, pool, atexit_hooks, time_out, other>>

\* Faulty variant: only lists and tuples are spread, a dict is passed whole.
SubmittedSpreadsSequencesOnly(unpack, obj) ==
    IF unpack /\ IsListOrTuple(obj) THEN WorkItem(Elements(obj), {})
    ELSE WorkItem(<<obj>>, {})

\* Faulty variant: the input is always the single positional argument.
SubmittedNeverSpread(unpack, obj) == WorkItem(<<obj>>, {})

\* The three branches of the submit loop: submit(func, *obj),
\* submit(func, **obj), submit(func, obj).
Submitted(unpack, obj) ==
    IF unpack /\ IsListOrTuple(obj) THEN WorkItem(Elements(obj), {})
    ELSE IF unpack /\ IsDict(obj) THEN WorkItem(<<>>, Entries(obj))
    ELSE WorkItem(<<obj>>, {})

\* Faulty variant: a submission waits until the tasks before it have ended.
SubmitAfterEarlierTasksEnd ==
    /\ pc = "submit"
    /\ Len(futures) < Len(objects)
    /\ \A i \in 1..Len(futures) : Resolved(futures[i])
    /\ work_items' = Append(work_items,
                            Submitted(unpack_objects, objects[Len(futures) + 1]))
    /\ futures' = Append(futures, NewFuture)
    /\ invoked' = Append(invoked, 0)
    /\ UNCHANGED <<objects, num_workers, pool, atexit_hooks, pc, ignore_exceptions,
                   unpack_objects, results, time_out, elapsed, waited, outcome,
                   cleaned, calls, other>>

\* Faulty variant: submit takes work for a pool that has been shut down.
SubmitToShutDownPool ==
    /\ pc = "submit"
    /\ Len(futures) < Len(objects)
    /\ work_items' = Append(work_items,
                            Submitted(unpack_objects, objects[Len(futures) + 1]))
    /\ futures' = Append(futures, NewFuture)
    /\ invoked' = Append(invoked, 0)
    /\ UNCHANGED <<objects, num_workers, pool, atexit_hooks, pc, ignore_exceptions,
                   unpack_objects, results, time_out, elapsed, waited, outcome,
                   cleaned, calls, other>>

\* for obj in self.objects: futures.append(self._thread_pool.submit(...))
\* submit raises RuntimeError on a pool that has been shut down, and nothing
\* in run catches it.
Submit ==
    /\ pc = "submit"
    /\ Len(futures) < Len(objects)
    /\ IF pool.shutdown
       THEN /\ pc' = "done"
            /\ outcome' = Raised(SubmitAfterShutdownError)
            /\ UNCHANGED <<work_items, futures, invoked>>
       ELSE /\ work_items' = Append(work_items,
                                    Submitted(unpack_objects, objects[Len(futures) + 1]))
            /\ futures' = Append(futures, NewFuture)
            /\ invoked' = Append(invoked, 0)
            /\ UNCHANGED <<pc, outcome>>
    /\ UNCHANGED <<objects, num_workers, pool, atexit_hooks, ignore_exceptions,
                   unpack_objects, results, time_out, elapsed, waited, cleaned,
                   calls, other>>

\* Faulty variant: the loop is left after the first outcome.
AfterHarvestStopsEarly(n) == IF n = 0 /\ n < Len(futures) THEN "harvest" ELSE "clean_up"

\* Faulty variant: run goes on to the result without clean_up.
AfterHarvestSkipsCleanUp(n) == IF n < Len(futures) THEN "harvest" ELSE "aggregate"

\* Where the harvest loop goes when n outcomes are in: the next future, or
\* clean_up after the last one.
AfterHarvest(n) == IF n < Len(futures) THEN "harvest" ELSE "clean_up"

\* time_out = self.timeout, and the harvest loop is entered
BeginHarvest ==
    /\ pc = "submit"
    /\ Len(futures) = Len(objects)
    /\ time_out' = Timeout
    /\ elapsed' = 0
    /\ pc' = AfterHarvest(0)
    /\ UNCHANGED <<objects, num_workers, pool, atexit_hooks, ignore_exceptions,
                   futures, results, waited, outcome, cleaned,
                   unpack_objects, work_items, invoked, calls, other>>

\* The index the harvest loop is at (obj_idx, counted from 1).
ObjIdx == Len(results) + 1

\* One millisecond passes while run is blocked in future.result(time_out).
Tick ==
    /\ pc = "harvest"
    /\ ~Resolved(futures[ObjIdx])
    /\ elapsed < time_out
    /\ elapsed' = elapsed + 1
    /\ waited' = waited + 1
    /\ UNCHANGED <<objects, num_workers, pool, atexit_hooks, pc, ignore_exceptions,
                   futures, results, time_out, outcome, cleaned,
                   unpack_objects, work_items, invoked, calls, other>>

\* future.result(time_out), once it stops blocking
FutureResult(future) ==
    CASE future.state = "CANCELLED" ->
            [raises |-> TRUE, exc |-> [cls |-> "CancelledError", arg |-> "cancelled"]]
      [] future.state = "FINISHED" /\ future.exception # None ->
            [raises |-> TRUE, exc |-> future.exception]
      [] future.state = "FINISHED" /\ future.exception = None ->
            [raises |-> FALSE, value |-> future.result]
      [] OTHER ->
            [raises |-> TRUE, exc |-> WaitTimeoutError]

\* Faulty variant: the index counted from 0 is used on a sequence counted from 1.
OutcomeObjOffByOne(obj_idx) == objects[IF obj_idx > 1 THEN obj_idx - 1 ELSE obj_idx]

\* The input an outcome refers back to: self.objects[obj_idx]
OutcomeObj(obj_idx) == objects[obj_idx]

\* Faulty variant: the value is not stored in the outcome.
OutcomeDropsValue(obj_idx, got) ==
    IF got.raises
    THEN ParallelObjectResult(objects[obj_idx], None, got.exc)
    ELSE ParallelObjectResult(objects[obj_idx], None, None)

\* Faulty variant: the exception is not stored in the outcome.
OutcomeDropsError(obj_idx, got) ==
    IF got.raises
    THEN ParallelObjectResult(objects[obj_idx], None, None)
    ELSE ParallelObjectResult(objects[obj_idx], got.value, None)

\* Faulty variant: a failed outcome carries its error in both fields.
OutcomeErrorInBothFields(obj_idx, got) ==
    IF got.raises
    THEN ParallelObjectResult(objects[obj_idx], got.exc, got.exc)
    ELSE ParallelObjectResult(objects[obj_idx], got.value, None)

\* The three branches of the try statement that append an outcome.
Outcome(obj_idx, got) ==
    IF got.raises
    THEN ParallelObjectResult(OutcomeObj(obj_idx), None, got.exc)
    ELSE ParallelObjectResult(OutcomeObj(obj_idx), got.value, None)

\* Faulty variant: the budget is left as it is after a timeout.
NextTimeOutNeverCollapses(got) == time_out

\* The budget after an outcome: collapsed by "except FuturesTimeoutError".
NextTimeOut(got) ==
    IF got.raises /\ IsFuturesTimeoutError(got.exc) THEN CollapsedTimeout ELSE time_out

\* What the try statement catches: a returned value needs no catching, and
\* the two except clauses take FuturesTimeoutError and Exception.
Caught(got) == ~got.raises \/ IsFuturesTimeoutError(got.exc) \/ IsException(got.exc)

\* Faulty variant: future.result() without a timeout.
CanHarvestWithoutTimeout == Resolved(futures[ObjIdx])

\* future.result(time_out) stops blocking when the future is resolved or
\* the budget has run out.
CanHarvest == Resolved(futures[ObjIdx]) \/ elapsed >= time_out

\* One pass of "for obj_idx, future in enumerate(futures)".
Harvest ==
    /\ pc = "harvest"
    /\ CanHarvest
    /\ LET got == FutureResult(futures[ObjIdx]) IN
       IF Caught(got)
       THEN /\ results' = Append(results, Outcome(ObjIdx, got))
            /\ time_out' = NextTimeOut(got)
            /\ pc' = AfterHarvest(ObjIdx)
            /\ outcome' = outcome
       ELSE \* no except clause matches: the exception leaves run
            /\ pc' = "done"
            /\ outcome' = Raised(got.exc)
            /\ UNCHANGED <<results, time_out>>
    /\ elapsed' = 0
    /\ UNCHANGED <<objects, num_workers, pool, atexit_hooks, ignore_exceptions,
                   futures, waited, cleaned,
                   unpack_objects, work_items, invoked, calls, other>>

-----------------------------------------------------------------------------
(* ParallelObject.clean_up *)

\* Faulty variant: cancel() does nothing.
CancelNothing(future) == future

\* Faulty variant: cancel() also stops a future that is running.
CancelInterrupts(future) ==
    IF future.state \in {"PENDING", "RUNNING"}
    THEN [future EXCEPT !.state = "CANCELLED"]
    ELSE future

\* future.cancel(): a future that is still queued becomes CANCELLED and its
\* work item is skipped by the workers; any other future is left as it is.
Cancel(future) ==
    IF future.state = "PENDING" THEN [future EXCEPT !.state = "CANCELLED"] ELSE future

\* for future in futures: future.cancel()
CleanUpCancel ==
    /\ pc = "clean_up"
    /\ cleaned < Len(futures)
    /\ futures' = [futures EXCEPT ![cleaned + 1] = Cancel(futures[cleaned + 1])]
    /\ cleaned' = cleaned + 1
    /\ UNCHANGED <<objects, num_workers, pool, atexit_hooks, pc, ignore_exceptions,
                   results, time_out, elapsed, waited, outcome,
                   unpack_objects, work_items, invoked, calls, other>>

\* Faulty variant: the registry is left alone.
UnregisterNothing(hooks) == hooks

\* atexit.unregister(_python_exit)
Unregister(hooks) == hooks \ {"_python_exit"}

\* Faulty variant: shutdown leaves the pool open.
ShutdownLeavesPoolOpen(executor) == executor

\* self._thread_pool.shutdown(wait=False): the pool takes no new work.
Shutdown(executor) == [executor EXCEPT !.shutdown = TRUE]

\* self._thread_pool.shutdown(wait=False); atexit.unregister(_python_exit)
CleanUpShutdown ==
    /\ pc = "clean_up"
    /\ cleaned = Len(futures)
    /\ pool' = Shutdown(pool)
    /\ atexit_hooks' = Unregister(atexit_hooks)
    /\ pc' = "aggregate"
    /\ UNCHANGED <<objects, num_workers, ignore_exceptions, futures, results,
                   time_out, elapsed, waited, cleaned, outcome,
                   unpack_objects, work_items, invoked, calls, other>>

-----------------------------------------------------------------------------
(* The end of run: return the outcomes or raise *)

HasTimeoutError(res) == IsFuturesTimeoutError(res.exc)

HasExc(res) == Truthy(res.exc)

\* timed_out = [result for result in results if isinstance(result.exc, FuturesTimeoutError)]
TimedOut(rs) == SelectSeq(rs, HasTimeoutError)

\* runs_that_finished_with_exception = [res for res in results if res.exc]
RunsThatFinishedWithException(rs) == SelectSeq(rs, HasExc)

\* [r.obj for r in results]
Objs(rs) == [i \in 1..Len(rs) |-> rs[i].obj]

\* FuturesTimeoutError("when running on: %s" % [r.obj for r in results])
BatchTimeoutError(rs) == [cls |-> "TimeoutError", running_on |-> Objs(rs)]

\* Faulty variant: the exception keeps the failed outcomes only.
ParallelObjectExceptionOfFailures(rs) ==
    [cls |-> "ParallelObjectException", results |-> SelectSeq(rs, HasExc)]

\* ParallelObjectException(results=results)
ParallelObjectException(rs) == [cls |-> "ParallelObjectException", results |-> rs]

\* f"{res.obj}: {res.exc}"
ExLine(res) == [obj |-> res.obj, exc |-> res.exc]

\* ParallelObjectException.__str__: the lines of the outcomes with an exc,
\* one after the other.
ExStr(exception) ==
    LET failed == SelectSeq(exception.results, HasExc)
    IN  [i \in 1..Len(failed) |-> ExLine(failed[i])]

\* Faulty variant: the two checks in the other order.
AggregatedFailuresFirst(ignore, rs) ==
    IF ignore THEN Returned(rs)
    ELSE IF RunsThatFinishedWithException(rs) # <<>> THEN Raised(ParallelObjectException(rs))
    ELSE IF TimedOut(rs) # <<>> THEN Raised(BatchTimeoutError(rs))
    ELSE Returned(rs)

\* What run does with the outcomes once clean_up is over.
Aggregated(ignore, rs) ==
    IF ignore THEN Returned(rs)
    ELSE IF TimedOut(rs) # <<>> THEN Raised(BatchTimeoutError(rs))
    ELSE IF RunsThatFinishedWithException(rs) # <<>> THEN Raised(ParallelObjectException(rs))
    ELSE Returned(rs)

Aggregate ==
    /\ pc = "aggregate"
    /\ outcome' = Aggregated(ignore_exceptions, results)
    /\ pc' = "done"
    /\ UNCHANGED <<objects, num_workers, pool, atexit_hooks, ignore_exceptions,
                   futures, results, time_out, elapsed, waited, cleaned,
                   unpack_objects, work_items, invoked, calls, other>>

-----------------------------------------------------------------------------

Worker == \E i \in 1..Len(futures) : Start(i) \/ Finish(i)

\* run is called with unpack_objects left at its default.
Caller ==
    \/ \E ignore \in BOOLEAN : Run(ignore, FALSE)
    \/ Submit
    \/ BeginHarvest
    \/ Harvest
    \/ CleanUpCancel
    \/ CleanUpShutdown
    \/ Aggregate

Next == Worker \/ Caller \/ Tick

Spec == Init /\ [][Next]_vars

\* One ParallelObject on which run is called more than once.  Its operations
\* return or raise an Exception, so every call comes back to its caller.
RerunInit ==
    /\ objects \in BoundedSeq(Items \ {"exit"}, MaxObjects)
    /\ num_workers \in {None} \cup {Int(n) : n \in 1..MaxWorkers}
    /\ pool = ThreadPoolExecutor(num_workers)
    /\ atexit_hooks = InterpreterHooks
    /\ pc = "idle"
    /\ calls = 0
    /\ ignore_exceptions = FALSE
    /\ unpack_objects = FALSE
    /\ work_items = <<>>
    /\ invoked = <<>>
    /\ futures = <<>>
    /\ results = <<>>
    /\ time_out = Timeout
    /\ elapsed = 0
    /\ waited = 0
    /\ cleaned = 0
    /\ outcome = [kind |-> "none"]
    /\ other = None

RerunNext == Next \/ \E ignore \in BOOLEAN : RunAgain(ignore, FALSE)

RerunSpec == RerunInit /\ [][RerunNext]_vars

\* Two ParallelObjects of one process, each run by a thread of its own.  The
\* variables hold the object whose threads take the next step and "other"
\* holds the second one; the exit-hook registry belongs to the process.
Self ==
    [objects |-> objects,
     num_workers |-> num_workers,
     pool |-> pool,
     pc |-> pc,
     calls |-> calls,
     ignore_exceptions |-> ignore_exceptions,
     unpack_objects |-> unpack_objects,
     work_items |-> work_items,
     invoked |-> invoked,
     futures |-> futures,
     results |-> results,
     time_out |-> time_out,
     elapsed |-> elapsed,
     waited |-> waited,
     cleaned |-> cleaned,
     outcome |-> outcome]

\* What ParallelObject(objs, num_workers=workers) builds, before run is called.
Built(objs, workers) ==
    [objects |-> objs,
     num_workers |-> workers,
     pool |-> ThreadPoolExecutor(workers),
     pc |-> "idle",
     calls |-> 0,
     ignore_exceptions |-> FALSE,
     unpack_objects |-> FALSE,
     work_items |-> <<>>,
     invoked |-> <<>>,
     futures |-> <<>>,
     results |-> <<>>,
     time_out |-> Timeout,
     elapsed |-> 0,
     waited |-> 0,
     cleaned |-> 0,
     outcome |-> [kind |-> "none"]]

\* The scheduler turns to the threads of the second object.
Switch ==
    /\ other # None
    /\ other' = Self
    /\ objects' = other.objects
    /\ num_workers' = other.num_workers
    /\ pool' = other.pool
    /\ pc' = other.pc
    /\ calls' = other.calls
    /\ ignore_exceptions' = other.ignore_exceptions
    /\ unpack_objects' = other.unpack_objects
    /\ work_items' = other.work_items
    /\ invoked' = other.invoked
    /\ futures' = other.futures
    /\ results' = other.results
    /\ time_out' = other.time_out
    /\ elapsed' = other.elapsed
    /\ waited' = other.waited
    /\ cleaned' = other.cleaned
    /\ outcome' = other.outcome
    /\ UNCHANGED atexit_hooks

PairInit ==
    /\ objects = <<"one", "boom">>
    /\ num_workers = Int(1)
    /\ pool = ThreadPoolExecutor(num_workers)
    /\ atexit_hooks = InterpreterHooks
    /\ pc = "idle"
    /\ calls = 0
    /\ ignore_exceptions = FALSE
    /\ unpack_objects = FALSE
    /\ work_items = <<>>
    /\ invoked = <<>>
    /\ futures = <<>>
    /\ results = <<>>
    /\ time_out = Timeout
    /\ elapsed = 0
    /\ waited = 0
    /\ cleaned = 0
    /\ outcome = [kind |-> "none"]
    /\ other = Built(<<"none", "one">>, Int(2))

PairNext == Next \/ Switch

PairSpec == PairInit /\ [][PairNext]_vars

\* A batch of shaped inputs, and run called with either value of
\* unpack_objects.
ArgsInit ==
    /\ objects \in BoundedSeq(ShapedItems, MaxObjects)
    /\ num_workers \in {None} \cup {Int(n) : n \in 1..MaxWorkers}
    /\ pool = ThreadPoolExecutor(num_workers)
    /\ atexit_hooks = InterpreterHooks
    /\ pc = "idle"
    /\ calls = 0
    /\ ignore_exceptions = FALSE
    /\ unpack_objects = FALSE
    /\ work_items = <<>>
    /\ invoked = <<>>
    /\ futures = <<>>
    /\ results = <<>>
    /\ time_out = Timeout
    /\ elapsed = 0
    /\ waited = 0
    /\ cleaned = 0
    /\ outcome = [kind |-> "none"]
    /\ other = None

ArgsCaller ==
    \/ \E ignore \in BOOLEAN, unpack \in BOOLEAN : Run(ignore, unpack)
    \/ Submit
    \/ BeginHarvest
    \/ Harvest
    \/ CleanUpCancel
    \/ CleanUpShutdown
    \/ Aggregate

ArgsNext == Worker \/ ArgsCaller \/ Tick

ArgsSpec == ArgsInit /\ [][ArgsNext]_vars

\* The caller's thread keeps running, and time passes; nothing is assumed of
\* the workers or of func.
FairSpec == Spec /\ WF_vars(Caller) /\ WF_vars(Tick)

-----------------------------------------------------------------------------
(* Properties *)

\* run is over.
Done == pc = "done"

\* An exception no except clause took left run from inside the harvest loop.
Escaped == Done /\ outcome.kind = "raised"
                /\ outcome.exc.cls \notin {"TimeoutError", "ParallelObjectException"}

\* The harvest loop ran to its end.
HarvestComplete == pc \in {"clean_up", "aggregate"} \/ (Done /\ ~Escaped)

\* The wait of handle i expired: its outcome is the per-task timeout.
TimedOutAt(i) == results[i].exc = WaitTimeoutError

\* func raised for handle i and the exception was harvested: an operation failure.
FailedAt(i) == results[i].exc # None /\ results[i].exc # WaitTimeoutError

Range(seq) == {seq[i] : i \in 1..Len(seq)}

\* C1: once the harvest is complete there is exactly one outcome per input,
\* and outcome i refers back to input i, whatever the order the tasks ended in
\* and whatever the size of the pool.
C1_OutcomesInInputOrder ==
    HarvestComplete =>
        /\ Len(results) = Len(objects)
        /\ \A i \in 1..Len(objects) : results[i].obj = objects[i]

\* C1 witness: two different inputs, the second of which ended while the first
\* was still running when its wait expired.
C1_Witness ==
    /\ HarvestComplete
    /\ Len(objects) = 2
    /\ objects[1] # objects[2]
    /\ TimedOutAt(1)
    /\ results[2].exc = None

\* The unwrapped values of the batch: [func(obj) for obj in objects].
Values == [i \in 1..Len(objects) |-> func(objects[i]).value]

\* The outcome of input i when func returned in time.
SuccessOutcome(i) == ParallelObjectResult(objects[i], func(objects[i]).value, None)

\* Every handle was harvested with a value.
AllSucceeded == HarvestComplete /\ \A i \in 1..Len(results) : results[i].exc = None

\* C2 as claimed: with ignore_exceptions = false and every operation succeeding
\* in time, run returns the unwrapped values func(input_i).
C2_ReturnsUnwrappedValues ==
    (Done /\ ~ignore_exceptions /\ AllSucceeded) => outcome = Returned(Values)

\* C2 amended: with ignore_exceptions = false and every operation succeeding in
\* time, run returns the ordered ParallelObjectResult objects; element i refers to
\* input i, its result is func(input_i) and its exc is None.
C2_ReturnsWrappedValues ==
    (Done /\ ~ignore_exceptions /\ AllSucceeded) =>
        outcome = Returned([i \in 1..Len(objects) |-> SuccessOutcome(i)])

\* C2 witness: a returned batch of two different inputs.
C2_Witness ==
    /\ Done /\ ~ignore_exceptions /\ AllSucceeded
    /\ Len(objects) = 2
    /\ objects[1] # objects[2]

\* C3: with ignore_exceptions = true the returned outcomes are one per input in
\* input order; an outcome without error carries func(input_i), an outcome with
\* an error carries no value, an input func raises on has an error, an input
\* func returns on has no error other than the expired wait, and when no wait
\* expired every input func returns on has its value.
C3_OutcomesCarryValueOrError ==
    (Done /\ ignore_exceptions /\ outcome.kind = "returned") =>
        /\ Len(outcome.value) = Len(objects)
        /\ \A i \in 1..Len(objects) :
              LET res == outcome.value[i]
                  call == func(objects[i])
              IN  /\ res.obj = objects[i]
                  /\ res.exc = None => (~call.raises /\ res.result = call.value)
                  /\ res.exc # None => res.result = None
                  /\ call.raises => res.exc = call.exc \/ res.exc = WaitTimeoutError
                  /\ ~call.raises => res.exc \in {None, WaitTimeoutError}
                  /\ (~call.raises /\ time_out = Timeout) => res.exc = None

\* C3 witness: the inputs [one, boom]: outcome 1 has the value, outcome 2 the error.
C3_Witness ==
    /\ Done /\ ignore_exceptions /\ outcome.kind = "returned"
    /\ objects = <<"one", "boom">>
    /\ outcome.value[1].result = func("one").value
    /\ outcome.value[2].exc = func("boom").exc

\* C4 as claimed: with ignore_exceptions = true run never raises; it returns
\* the full ordered outcome sequence.
C4_NeverRaisesWhenIgnoring ==
    (Done /\ ignore_exceptions) =>
        (outcome.kind = "returned" /\ Len(outcome.value) = Len(objects))

\* C5: with ignore_exceptions = false, once every handle is harvested and at
\* least one wait expired, run raises the batch timeout error, also when other
\* outcomes are operation failures, and the error names every timed-out input.
C5_TimeoutTakesPrecedence ==
    (Done /\ ~ignore_exceptions /\ HarvestComplete
          /\ \E i \in 1..Len(results) : TimedOutAt(i)) =>
        /\ outcome.kind = "raised"
        /\ outcome.exc.cls = "TimeoutError"
        /\ \A i \in 1..Len(results) :
              TimedOutAt(i) => objects[i] \in Range(outcome.exc.running_on)

\* C5 witness: one wait expired and another input failed in its operation.
C5_Witness ==
    /\ Done /\ ~ignore_exceptions /\ HarvestComplete
    /\ \E i \in 1..Len(results) : TimedOutAt(i)
    /\ \E i \in 1..Len(results) : results[i].exc.cls = "ValueError"

\* C6 as claimed: with ignore_exceptions = false, no expired wait and at least
\* one operation failure, run raises the aggregate failure, whose message has
\* a line for every failing input with its error and none for the others.
C6_AggregateNamesFailures ==
    (Done /\ ~ignore_exceptions /\ HarvestComplete
          /\ (\A i \in 1..Len(results) : ~TimedOutAt(i))
          /\ (\E i \in 1..Len(results) : FailedAt(i))) =>
        /\ outcome.kind = "raised"
        /\ outcome.exc.cls = "ParallelObjectException"
        /\ Range(ExStr(outcome.exc)) =
              {ExLine(results[i]) : i \in {j \in 1..Len(results) : FailedAt(j)}}

\* C7: never more operations running than the pool has workers, which is
\* num_workers when given, at any point, also after run is over.
C7_AtMostMaxWorkersRunning ==
    /\ NumRunning <= pool.max_workers
    /\ num_workers # None => NumRunning <= num_workers.n

\* C7 witness: run is over, the pool is smaller than the batch and every
\* worker is still busy.
C7_Witness ==
    /\ Done
    /\ num_workers # None
    /\ Len(objects) > num_workers.n
    /\ NumRunning = num_workers.n

\* A queued task is held back by a saturated pool.
QueuedBehindBusyPool ==
    \E i \in 1..Len(futures) :
        futures[i].state = "PENDING" /\ NumRunning >= pool.max_workers

\* C8 as claimed: without num_workers there is a worker per input, so no
\* input waits in the queue behind another input of the batch.
C8_WorkerPerInput == num_workers = None => ~QueuedBehindBusyPool

\* C8 amended: without num_workers the pool has the executor's default number
\* of workers, which does not depend on the batch; no more operations than
\* that run at a time and further inputs wait in the queue.
C8_DefaultPoolSize ==
    num_workers = None =>
        /\ pool.max_workers = DefaultMaxWorkers
        /\ NumRunning <= DefaultMaxWorkers

\* C8 witness: no num_workers, the default number of operations running and
\* another input of the batch queued behind them.
C8_Witness ==
    /\ num_workers = None
    /\ NumRunning = DefaultMaxWorkers
    /\ QueuedBehindBusyPool

\* C9 as claimed: the time run spends waiting for its handles is at most
\* timeout plus one collapsed budget for each handle after the first.
C9_GlobalBudget ==
    Len(objects) > 0 => waited <= Timeout + (Len(objects) - 1) * CollapsedTimeout

\* C10: run terminates, by returning or raising, with every handle
\* harvested unless an exception escaped the harvest.
C10_RunTerminates == <>(Done /\ (Escaped \/ Len(results) = Len(objects)))

\* C10 witness: run is over while one operation is still running and
\* another was still queued when clean_up cancelled it.
C10_Witness ==
    /\ Done
    /\ \E i \in 1..Len(futures) : futures[i].state = "RUNNING"
    /\ \E i \in 1..Len(futures) : futures[i].state = "CANCELLED"

\* A wait of this run has expired.
SomeWaitExpired == \E i \in 1..Len(results) : TimedOutAt(i)

\* What func made of input i, as an outcome.
RealOutcome(i) ==
    IF func(objects[i]).raises
    THEN ParallelObjectResult(objects[i], None, func(objects[i]).exc)
    ELSE SuccessOutcome(i)

\* C11: once a wait has expired, a later handle is waited for no longer than
\* the collapsed budget; when an outcome is recorded for it, it is the timeout
\* if the handle is not resolved by then, and the real value or error of its
\* operation if it is.
C11_LaterHandlesAfterExpiredWait ==
    [][(pc = "harvest" /\ SomeWaitExpired /\ Len(results') = Len(results) + 1) =>
          /\ elapsed <= CollapsedTimeout
          /\ futures[ObjIdx].state # "FINISHED" =>
                results'[ObjIdx] = ParallelObjectResult(objects[ObjIdx], None, WaitTimeoutError)
          /\ futures[ObjIdx].state = "FINISHED" =>
                results'[ObjIdx] = RealOutcome(ObjIdx)]_vars

\* C11 witness: the first wait expired; the second handle was not resolved
\* after the collapsed budget and is reported as timed out too.
C11_Witness ==
    /\ Len(results) = 2
    /\ TimedOutAt(1) /\ TimedOutAt(2)
    /\ waited = Timeout + CollapsedTimeout

\* run returned, or raised one of the two batch failures.
ReturnedOrBatchFailure == Done /\ ~Escaped

\* C12: when run returns or raises a batch failure no task is left queued:
\* each was started before clean_up reached it or is cancelled, and a
\* cancelled task is never started.
C12_QueuedTasksAreCancelled ==
    [][/\ ReturnedOrBatchFailure' =>
            \A i \in 1..Len(futures') : futures'[i].state # "PENDING"
       /\ \A i \in 1..Len(futures) :
            (futures[i].state = "CANCELLED" /\ Len(futures') >= i) =>
                futures'[i].state = "CANCELLED"]_vars

\* C12 witness: run raised the batch timeout and a task that was still queued
\* behind the busy pool is cancelled.
C12_Witness ==
    /\ ReturnedOrBatchFailure
    /\ outcome.kind = "raised"
    /\ \E i \in 1..Len(futures) : futures[i].state = "CANCELLED"
    /\ NumRunning = pool.max_workers

\* C15 as claimed: a handle that is resolved with a failure when it is
\* harvested, whatever func raised, leaves the wait budget as it was and its
\* outcome does not count as a timeout.
C15_FailureLeavesBudget ==
    [][(/\ pc = "harvest"
        /\ futures[ObjIdx].state = "FINISHED"
        /\ futures[ObjIdx].exception # None
        /\ Len(results') = Len(results) + 1) =>
          /\ time_out' = time_out
          /\ ~HasTimeoutError(results'[ObjIdx])]_vars

\* C16 as claimed: during the harvest the budget is the configured timeout
\* as long as no wait has expired and the collapsed budget from then on.
C16_BudgetIsLatch ==
    pc = "harvest" =>
        time_out = IF SomeWaitExpired THEN CollapsedTimeout ELSE Timeout

\* run raised one of its two batch failures.
BatchFailureRaised ==
    /\ outcome.kind = "raised"
    /\ outcome.exc.cls \in {"TimeoutError", "ParallelObjectException"}

\* C18: a batch failure is raised only at the end of run, with every input
\* submitted and every handle harvested into an outcome, those after a failed
\* or timed-out handle too; until run is over nothing is returned or raised.
C18_NoPromotionMidRun ==
    /\ BatchFailureRaised =>
          /\ Done
          /\ Len(futures) = Len(objects)
          /\ Len(results) = Len(futures)
    /\ ~Done => outcome.kind = "none"

\* C18 witness: the first handle failed, the second was still harvested with
\* its value, and then the batch failure was raised.
C18_Witness ==
    /\ BatchFailureRaised
    /\ ~ignore_exceptions
    /\ Len(results) = 2
    /\ results[1].exc # None
    /\ results[2].exc = None

\* C19 as claimed: with ignore_exceptions = false run does not wait for any
\* future after the first one that failed or timed out.
C19_StopsAtFirstFailure ==
    (~ignore_exceptions /\ pc = "harvest") =>
        \A i \in 1..Len(results) : results[i].exc = None

\* C20: run never stops a task that has started: a running task stays
\* running, through the expiry of its wait, cancel() and the shutdown, until
\* func itself ends; and clean_up and the end of run never wait for it.
C20_RunningTasksAreLeftAlone ==
    [][/\ \A i \in 1..Len(futures) :
            futures[i].state = "RUNNING" =>
                /\ Len(futures') >= i
                /\ \/ futures'[i].state = "RUNNING"
                   \/ futures'[i] = Finished(func(objects[i]))
       /\ pc \in {"clean_up", "aggregate"} => ENABLED Caller]_vars

\* C20 witness: run is over, clean_up has asked every future to cancel, and
\* the task whose wait expired is still running.
C20_Witness ==
    /\ Done
    /\ pool.shutdown
    /\ \E i \in 1..Len(futures) : futures[i].state = "RUNNING" /\ TimedOutAt(i)

\* C14 as claimed: the exit-hook registry of the process is after a run call
\* what it was before it.
C14_ExitHooksUntouched == Done => atexit_hooks = InterpreterHooks

\* C14 amended: run installs no exit hook and the pool is shut down only by
\* clean_up, inside the run call, but clean_up also removes the executor's
\* _python_exit from the registry of the process: it is there until clean_up
\* and gone when run has returned or raised a batch failure.
C14_RemovesExecutorExitHook ==
    /\ atexit_hooks \subseteq InterpreterHooks
    /\ ~pool.shutdown => atexit_hooks = InterpreterHooks
    /\ pool.shutdown => pc \in {"aggregate", "done"}
    /\ ReturnedOrBatchFailure => (pool.shutdown /\ "_python_exit" \notin atexit_hooks)

\* C14 witness: run is over, the hook is gone and a leaked task still runs.
C14_Witness ==
    /\ ReturnedOrBatchFailure
    /\ atexit_hooks = {}
    /\ NumRunning > 0

\* C17 as claimed: every recorded outcome has exactly one of result and exc
\* populated, a populated field being one that is not None.
C17_ExactlyOnePopulated ==
    \A i \in 1..Len(results) : (results[i].result # None) # (results[i].exc # None)

\* C17 amended: no outcome has both fields populated; an outcome with an
\* error has no result; an outcome without an error carries what the
\* operation returned, and that is None when the operation returned None, so
\* an outcome of a successful task can have neither field populated.
C17_AtMostOnePopulated ==
    \A i \in 1..Len(results) :
        /\ ~(results[i].result # None /\ results[i].exc # None)
        /\ results[i].exc # None => results[i].result = None
        /\ results[i].exc = None =>
              /\ ~func(objects[i]).raises
              /\ results[i].result = func(objects[i]).value
        /\ (results[i].result = None /\ results[i].exc = None) =>
              func(objects[i]) = [raises |-> FALSE, value |-> None]

\* C17 witness: run returned the outcome of a task that completed with None
\* next to the outcome of a task that failed.
C17_Witness ==
    /\ Done
    /\ outcome.kind = "returned"
    /\ Len(results) = 2
    /\ results[1].result = None /\ results[1].exc = None
    /\ results[2].result = None /\ results[2].exc # None

\* The call the executor made for input i, as the operation saw it.
InvokedAs(i, args, kwargs) ==
    /\ work_items[i] = WorkItem(args, kwargs)
    /\ futures[i].state = "FINISHED" =>
          futures[i] = Finished(Invoke(WorkItem(args, kwargs)))

\* C13: with unpack_objects set, the input [a, b] is invoked as func(a, b) and
\* the input {x: 1} as func(x=1); with unpack_objects not set, every input,
\* whatever its type, is the single positional argument of the call.
C13_InputsSpreadByUnpackMode ==
    /\ Len(work_items) = Len(futures)
    /\ \A i \in 1..Len(work_items) :
          /\ (unpack_objects /\ objects[i] = "[a, b]") =>
                InvokedAs(i, <<"a", "b">>, {})
          /\ (unpack_objects /\ objects[i] = "{x: 1}") =>
                InvokedAs(i, <<>>, {<<"x", "1">>})
          /\ ~unpack_objects => InvokedAs(i, <<objects[i]>>, {})
          /\ objects[i] = "s" => InvokedAs(i, <<"s">>, {})

\* C13 witness: run returned the outcomes of func(a, b) and func(x=1).
C13_Witness ==
    /\ Done
    /\ unpack_objects
    /\ outcome.kind = "returned"
    /\ objects = <<"[a, b]", "{x: 1}">>
    /\ results[1].result = [cls |-> "call", args |-> <<"a", "b">>, kwargs |-> {}]
    /\ results[2].result = [cls |-> "call", args |-> <<>>, kwargs |-> {<<"x", "1">>}]

\* C21: while inputs are left to submit, the next submission can be made at
\* once, whatever the earlier tasks are doing and however busy the pool is, and
\* no time has been spent waiting; when the first wait begins there is one
\* handle per input, in input order.
C21_SubmitsAllBeforeWaiting ==
    /\ (pc = "submit" /\ Len(futures) < Len(objects)) => ENABLED Submit
    /\ pc = "submit" => (waited = 0 /\ results = <<>>)
    /\ pc = "harvest" =>
          /\ Len(futures) = Len(objects)
          /\ Len(work_items) = Len(objects)
          /\ \A i \in 1..Len(objects) :
                work_items[i] = Submitted(unpack_objects, objects[i])

\* C21 witness: the first wait begins with more inputs than workers, the first
\* task running and the second one queued behind it.
C21_Witness ==
    /\ pc = "harvest"
    /\ results = <<>>
    /\ waited = 0
    /\ Len(futures) > pool.max_workers
    /\ futures[1].state = "RUNNING"
    /\ futures[2].state = "PENDING"

\* Input i was handed over whole, as the single positional argument.
PassedWhole(i) == work_items[i] = WorkItem(<<objects[i]>>, {})

\* Input i, a list or tuple, was spread into positional arguments.
SpreadPositionally(i) ==
    IsListOrTuple(objects[i]) /\ work_items[i] = WorkItem(Elements(objects[i]), {})

\* Input i, a dict, was spread into keyword arguments.
SpreadByKeyword(i) ==
    IsDict(objects[i]) /\ work_items[i] = WorkItem(<<>>, Entries(objects[i]))

\* C22 as claimed: the modes are exclusive.  A run that spreads a sequence is in
\* positional mode and passes every dict whole; a run that spreads a dict is in
\* keyword mode and passes every list whole.
C22_UnpackModesExclusive ==
    /\ (\E i \in 1..Len(work_items) : SpreadPositionally(i)) =>
          \A j \in 1..Len(work_items) : IsDict(objects[j]) => PassedWhole(j)
    /\ (\E i \in 1..Len(work_items) : SpreadByKeyword(i)) =>
          \A j \in 1..Len(work_items) : IsListOrTuple(objects[j]) => PassedWhole(j)

\* C22 amended: there is one switch, unpack_objects.  An input is passed whole
\* exactly when the switch is off or the input is neither a list or tuple nor
\* a dict; with the switch on, lists and dicts of one batch are both spread.
C22_OneSwitchSpreadsBoth ==
    \A i \in 1..Len(work_items) :
        /\ PassedWhole(i) <=>
              (~unpack_objects \/ ~(IsListOrTuple(objects[i]) \/ IsDict(objects[i])))
        /\ ~PassedWhole(i) => (SpreadPositionally(i) \/ SpreadByKeyword(i))

\* C22 witness: one batch in which a dict was spread by keyword and a list
\* positionally, both calls made.
C22_Witness ==
    /\ pc = "harvest"
    /\ Len(work_items) = 2
    /\ SpreadByKeyword(1)
    /\ SpreadPositionally(2)
    /\ futures[1].state = "FINISHED"
    /\ futures[2].state = "FINISHED"

\* C23: whatever run is called with, an item that is a list is unpacked into
\* func's positional arguments, an item that is a dict into its keyword
\* arguments, and any other item is passed as it is.
C23_ItemsUnpackedByType ==
    \A i \in 1..Len(work_items) :
        /\ IsListOrTuple(objects[i]) => SpreadPositionally(i)
        /\ IsDict(objects[i]) => SpreadByKeyword(i)
        /\ ~(IsListOrTuple(objects[i]) \/ IsDict(objects[i])) => PassedWhole(i)

\* run raised the batch-level timeout failure.
BatchTimeoutRaised == Done /\ outcome.kind = "raised" /\ outcome.exc.cls = "TimeoutError"

\* C26: the message of the batch-level timeout failure lists the inputs whose
\* outcome is a timeout, in input order, and no input whose outcome is a
\* success or an operation failure.
C26_TimeoutNamesOffendersOnly ==
    BatchTimeoutRaised => outcome.exc.running_on = Objs(TimedOut(results))

\* run raised the aggregate failure.
AggregateRaised ==
    Done /\ outcome.kind = "raised" /\ outcome.exc.cls = "ParallelObjectException"

\* C29: when run is about to return or raise a batch failure, and when it has
\* done so, clean_up has passed every handle (each was asked to cancel, so
\* none is left queued) and the pool is shut down.
C29_CleanUpPrecedesResult ==
    (pc = "aggregate" \/ ReturnedOrBatchFailure) =>
        /\ cleaned = Len(futures)
        /\ Len(futures) = Len(objects)
        /\ \A i \in 1..Len(futures) : futures[i] = Cancel(futures[i])
        /\ pool.shutdown

\* C29 witness: run is about to raise the batch timeout: the queued task has
\* been cancelled, the running one was asked to and runs on, the pool is shut
\* down and nothing has been raised yet.
C29_Witness ==
    /\ pc = "aggregate"
    /\ ~ignore_exceptions
    /\ outcome.kind = "none"
    /\ pool.shutdown
    /\ Len(futures) = 2
    /\ futures[1].state = "RUNNING"
    /\ futures[2].state = "CANCELLED"

\* C30: the raised aggregate failure carries the outcomes of the whole batch:
\* one per input, in input order, each success with the value func returned.
C30_AggregateCarriesAllOutcomes ==
    AggregateRaised =>
        /\ outcome.exc.results = results
        /\ Len(outcome.exc.results) = Len(objects)
        /\ \A i \in 1..Len(objects) :
              LET res == outcome.exc.results[i]
              IN  /\ res.obj = objects[i]
                  /\ res.exc = None => res = SuccessOutcome(i)
                  /\ res.exc # None => res.exc = func(objects[i]).exc

\* C30 witness: an aggregate failure raised for a batch whose first input
\* succeeded with a value and whose second failed.
C30_Witness ==
    /\ AggregateRaised
    /\ Len(outcome.exc.results) = 2
    /\ outcome.exc.results[1].exc = None
    /\ outcome.exc.results[1].result = func("one").value
    /\ outcome.exc.results[2].exc = func("boom").exc

\* C27: func is called at most once for each input of a run; an input whose
\* outcome is a success or an operation failure had exactly one call; an input
\* whose outcome is a timeout had one call or none, and one that was cancelled
\* while queued had none.
C27_InvokedAtMostOnce ==
    /\ Len(invoked) = Len(futures)
    /\ \A i \in 1..Len(invoked) :
          /\ invoked[i] <= 1
          /\ futures[i].state \in {"PENDING", "CANCELLED"} => invoked[i] = 0
          /\ futures[i].state \in {"RUNNING", "FINISHED"} => invoked[i] = 1
          /\ (i <= Len(results) /\ ~HasTimeoutError(results[i])) => invoked[i] = 1

\* C27 witness: run is over with both inputs reported as timed out, the first
\* called once and still running, the second never called and cancelled.
C27_Witness ==
    /\ ReturnedOrBatchFailure
    /\ Len(results) = 2
    /\ TimedOutAt(1) /\ TimedOutAt(2)
    /\ invoked = <<1, 0>>
    /\ futures[2].state = "CANCELLED"

OtherRunning ==
    Cardinality({j \in 1..Len(other.futures) : other.futures[j].state = "RUNNING"})

\* Both objects are inside a run call, and this one has not shut its pool down.
BothInsideRun ==
    /\ pc \in {"submit", "harvest", "clean_up"}
    /\ other.pc \in {"submit", "harvest", "clean_up", "aggregate"}

\* The first queued task of this object, if a worker of its pool is free.
NextToStart ==
    {i \in 1..Len(futures) :
        /\ futures[i].state = "PENDING"
        /\ \A j \in 1..(i - 1) : futures[j].state # "PENDING"
        /\ NumRunning < pool.max_workers}

\* C25 as claimed: two concurrent run calls share no state, so while both are
\* inside run, the one that has not reached the end of its own clean_up finds
\* every piece of state it touches, the exit-hook registry included, as its
\* own steps left it.
C25_ConcurrentRunsShareNoState ==
    BothInsideRun => atexit_hooks = InterpreterHooks

\* C25 amended: the pool, the queue, the handles, the outcomes and the budget
\* of a run call are its own: a step of one run leaves all of them unchanged
\* in the other, each pool keeps to its own cap, and a queued task starts as
\* soon as a worker of its own pool is free, whatever the other pool is doing.
\* The exit-hook registry of the process is shared: the first clean_up to
\* end removes the executor's hook for both.
C25_OnlyExitHooksShared ==
    [][/\ Switch \/ other' = other
       /\ NumRunning <= pool.max_workers
       /\ OtherRunning <= other.pool.max_workers
       /\ \A i \in NextToStart : ENABLED Start(i)
       /\ atexit_hooks' =
             IF pool'.shutdown \/ other'.pool.shutdown THEN {} ELSE InterpreterHooks]_vars

\* C25 witness: this run has cancelled its queued task and shut its pool down
\* while the run on the second object is waiting with its pool at its cap;
\* the hook is gone from the registry for both.
C25_Witness ==
    /\ pool.shutdown
    /\ \E i \in 1..Len(futures) : futures[i].state = "CANCELLED"
    /\ other.pc = "harvest"
    /\ ~other.pool.shutdown
    /\ OtherRunning = other.pool.max_workers
    /\ atexit_hooks = {}

====
